---- MODULE Spec2Model ----
(***************************************************************************)
(* A model of the WeeWX XmlParse driver (bin/user/xmlparse.py): the        *)
(* XmlObject document source, the get_xml / parse_raw_data / convert_data  *)
(* pipeline and the genLoopPackets polling loop with its timestamp gate.   *)
(*                                                                         *)
(* Python values are tagged records, so that None, strings, floats and     *)
(* ints can be told apart and compared.  A Python str holds a TLA+ string, *)
(* a float an integer number of 1/FloatScale units.  An operation that can *)
(* raise returns Ok(value) or Raise(exception name).                       *)
(***************************************************************************)
EXTENDS Integers, Sequences, FiniteSets, TLC

VARIABLES
    xml_config_dict,   \* history: the options __init__ was called with, when recorded
    poll_interval,     \* self.poll_interval
    mode,              \* self.mode: "master" or "slave"
    date_time_format,  \* self.date_time_format
    time_zone,         \* self.time_zone: None, a zone code or an (xpath, arg) tuple
    sensor_map,        \* self.sensor_map
    rain_delta,        \* self.rain_delta
    old_rain,          \* self.old_rain
    tree,              \* self.xml.tree
    clock,             \* the wall clock, time.time(), in ticks
    pc,                \* where genLoopPackets stands
    exc,               \* the exception that ended genLoopPackets, if any
    cycle,             \* number of loop iterations begun
    last_dateTime,     \* _last_dateTime
    ts,                \* _ts
    raw_data,          \* _raw_data
    parsed_data,       \* _parsed_data
    converted_data,    \* _converted_data
    packet,            \* _packet
    et_parse,          \* history: what ET.parse did in the latest read_file
    prev_dateTime,     \* history: the dateTime the previous iteration took to the gate
    emitted_max        \* history: the greatest dateTime of the packets yielded and
                       \* taken by the consumer so far, None when there is none

vars == <<xml_config_dict, poll_interval, mode, date_time_format, time_zone, sensor_map, rain_delta, old_rain,
          tree, clock, pc, exc, cycle, last_dateTime, ts, raw_data,
          parsed_data, converted_data, packet, et_parse, prev_dateTime, emitted_max>>

config == <<xml_config_dict, poll_interval, mode, date_time_format, time_zone, sensor_map,
            rain_delta>>

(***************************************************************************)
(* Bounds of the model.                                                    *)
(***************************************************************************)
\* loop iterations explored
MaxCycles == 3
\* clock ticks per second: the clock has sub-second resolution
TicksPerSec == 2
\* the longest time, in ticks, from the top of the loop to the reading of _ts
MaxDelay == 1
\* self.poll_interval, in ticks
PollTicks == 1
\* offset of local time from GMT, in seconds (local = GMT + TZOffset)
TZOffset == 1
\* a float is an integer count of 1/FloatScale
FloatScale == 10000

(***************************************************************************)
(* Python values.                                                          *)
(***************************************************************************)
None == [t |-> "None"]
Unbound == [t |-> "unbound"]
PyStr(s) == [t |-> "str", s |-> s]
PyFloat(n) == [t |-> "float", f |-> n]
PyInt(n) == [t |-> "int", i |-> n]
Tuple(a, b) == [t |-> "tuple", e |-> <<a, b>>]
PyList(elems) == [t |-> "list", e |-> elems]
PyBool(b) == [t |-> "bool", b |-> b]
Func(name) == [t |-> "function", name |-> name]

Ok(v) == [t |-> "ok", v |-> v]
Raise(e) == [t |-> "raise", e |-> e]
IsRaise(r) == r.t = "raise"

\* hasattr(x, '__iter__'): true of a tuple or list, false of a Python 2 str
hasattr_iter(x) == x.t \in {"tuple", "list"}

EmptyDict == [k \in {} |-> None]

\* the value of a number, in 1/FloatScale units
NumVal(x) == IF x.t = "int" THEN x.i * FloatScale ELSE x.f

\* rank of a type in Python 2's ordering of unlike types: None first, then
\* numbers, then everything else
TypeRank(x) == IF x.t = "None" THEN 0 ELSE IF x.t \in {"int", "float"} THEN 1 ELSE 2

\* a > b as Python 2 evaluates it on None, numbers and strings
py2_gt(a, b) ==
    IF TypeRank(a) = 1 /\ TypeRank(b) = 1 THEN NumVal(a) > NumVal(b)
    ELSE TypeRank(a) > TypeRank(b)

\* a >= b as Python 2 evaluates it
py2_ge(a, b) ==
    IF TypeRank(a) = 1 /\ TypeRank(b) = 1 THEN NumVal(a) >= NumVal(b)
    ELSE TypeRank(a) >= TypeRank(b)

(***************************************************************************)
(* Python's string operations.                                             *)
(***************************************************************************)
endswith(s, suffix) ==
    /\ Len(s) >= Len(suffix)
    /\ SubSeq(s, Len(s) - Len(suffix) + 1, Len(s)) = suffix

(***************************************************************************)
(* Python's float() and datetime.strptime(), on the strings of the model.  *)
(***************************************************************************)
DigitVal ==
    ("0" :> 0) @@ ("1" :> 1) @@ ("2" :> 2) @@ ("3" :> 3) @@ ("4" :> 4) @@
    ("5" :> 5) @@ ("6" :> 6) @@ ("7" :> 7) @@ ("8" :> 8) @@ ("9" :> 9)

IsDigits(s) == Len(s) > 0 /\ \A i \in 1..Len(s) : SubSeq(s, i, i) \in DOMAIN DigitVal

RECURSIVE DecimalVal(_)
DecimalVal(s) ==
    IF s = "" THEN 0
    ELSE 10 * DecimalVal(SubSeq(s, 1, Len(s) - 1)) + DigitVal[SubSeq(s, Len(s), Len(s))]

RECURSIVE Pow10(_)
Pow10(n) == IF n = 0 THEN 1 ELSE 10 * Pow10(n - 1)

\* position of the first "." of s, or 0
DotAt(s) ==
    IF \E i \in 1..Len(s) : SubSeq(s, i, i) = "."
    THEN CHOOSE i \in 1..Len(s) :
             SubSeq(s, i, i) = "." /\ \A j \in 1..(i - 1) : SubSeq(s, j, j) # "."
    ELSE 0

\* an unsigned decimal literal: digits, or digits "." digits with a digit on
\* at least one side
IsUnsignedLiteral(s) ==
    LET d == DotAt(s)
        ip == SubSeq(s, 1, d - 1)
        fp == SubSeq(s, d + 1, Len(s))
    IN  IF d = 0 THEN IsDigits(s)
        ELSE /\ Len(ip) + Len(fp) > 0
             /\ ip = "" \/ IsDigits(ip)
             /\ fp = "" \/ IsDigits(fp)

UnsignedVal(s) ==
    LET d == DotAt(s)
        ip == SubSeq(s, 1, d - 1)
        fp == SubSeq(s, d + 1, Len(s))
    IN  IF d = 0 THEN DecimalVal(s) * FloatScale
        ELSE DecimalVal(ip) * FloatScale + (DecimalVal(fp) * FloatScale) \div Pow10(Len(fp))

\* float(x): TypeError on None, ValueError on a string that is no number
float(x) ==
    IF x.t \in {"None", "tuple", "list"} THEN Raise("TypeError")
    ELSE IF x.t \in {"int", "float"} THEN Ok(PyFloat(NumVal(x)))
    ELSE IF Len(x.s) > 0 /\ SubSeq(x.s, 1, 1) = "-" /\ IsUnsignedLiteral(Tail(x.s))
         THEN Ok(PyFloat(0 - UnsignedVal(Tail(x.s))))
    ELSE IF IsUnsignedLiteral(x.s) THEN Ok(PyFloat(UnsignedVal(x.s)))
    ELSE Raise("ValueError")

\* datetime.datetime.strptime(value, format), giving the naive date-time as
\* its count of seconds since 1970-01-01 00:00:00.  The formats of the model
\* are one numeric directive: a date-time string is the decimal count of
\* seconds.  TypeError when either argument is not a string.
strptime(value, format) ==
    IF value.t # "str" \/ format.t # "str" THEN Raise("TypeError")
    ELSE IF IsDigits(value.s) THEN Ok(DecimalVal(value.s))
    ELSE Raise("ValueError")

\* time.mktime(): the naive date-time read as local time
mktime(dt) == dt - TZOffset

\* calendar.timegm(): the naive date-time read as GMT
timegm(dt) == dt

(***************************************************************************)
(* class XmlObject.  The tree is None or an ElementTree whose root holds a *)
(* sequence of child elements; an XPath spec of the model is a child tag.  *)
(***************************************************************************)
Element(tag, text, attrib) == [t |-> "Element", tag |-> tag, text |-> text, attrib |-> attrib]
ElementTree(children) == [t |-> "ElementTree", root |-> children]
NoAttrib == [k \in {} |-> ""]

\* find() returning the last match in document order
find_last(tree_, xpath) ==
    LET hits == {i \in 1..Len(tree_.root) : PyStr(tree_.root[i].tag) = xpath}
    IN  IF hits = {} THEN None
        ELSE tree_.root[CHOOSE i \in hits : \A j \in hits : i >= j]

\* ElementTree.find(xpath): the first match in document order, or None
find(tree_, xpath) ==
    LET hits == {i \in 1..Len(tree_.root) : PyStr(tree_.root[i].tag) = xpath}
    IN  IF hits = {} THEN None
        ELSE tree_.root[CHOOSE i \in hits : \A j \in hits : i <= j]

\* Element.get(attrib, None)
Element_get(e, attrib) ==
    IF attrib.t = "str" /\ attrib.s \in DOMAIN e.attrib THEN PyStr(e.attrib[attrib.s]) ELSE None

\* read_file with the tree dropped when the parse fails
read_file_drops_tree(tree_, parsed) == IF IsRaise(parsed) THEN Ok(None) ELSE Ok(parsed.v)

\* XmlObject.read_file(), given what ET.parse(self.path) does: the tree it
\* leaves in self.tree, or the exception it lets through
read_file(tree_, parsed) == IF IsRaise(parsed) THEN Ok(tree_) ELSE Ok(parsed.v)

\* XmlObject.get_xpath(xpath, attrib)
get_xpath(tree_, xpath, attrib) ==
    IF tree_ = None THEN Raise("AttributeError")
    ELSE LET e == find(tree_, xpath)
         IN  IF e = None THEN Raise("AttributeError")
             ELSE IF attrib = None THEN Ok(e.text)
             ELSE Ok(Element_get(e, attrib))

(***************************************************************************)
(* class XmlParseDriver: the per-cycle pipeline.  A dict is a function     *)
(* from key strings to values.                                             *)
(***************************************************************************)
SUPPORTED_TIMEZONES == {PyStr("GMT"), PyStr("UTC")}

\* the entries of a dict of results, when none of them raised
Values(results) == [k \in DOMAIN results |-> results[k].v]
AnyRaise(results) == \E k \in DOMAIN results : IsRaise(results[k])

\* XmlParseDriver.get_xml(): dict of raw data, or the exception of a lookup
get_xml(tree_, sensor_map_, mode_, time_zone_) ==
    LET obs == [f \in DOMAIN sensor_map_ |->
                   get_xpath(tree_, sensor_map_[f].obs.xpath, sensor_map_[f].obs.arg)]
        tz == IF mode_ # "slave" THEN EmptyDict
              ELSE IF hasattr_iter(time_zone_)
              THEN "timezone" :> get_xpath(tree_, time_zone_.e[1], time_zone_.e[2])
              ELSE "timezone" :> Ok(time_zone_)
        with_units == {f \in DOMAIN sensor_map_ :
                          /\ "units" \in DOMAIN sensor_map_[f]
                          /\ hasattr_iter(sensor_map_[f].units)}
        units == [k \in {f \o "_units" : f \in with_units} |->
                     LET f == SubSeq(k, 1, Len(k) - Len("_units"))
                     IN  get_xpath(tree_, sensor_map_[f].units.e[1], sensor_map_[f].units.e[2])]
    IN  IF AnyRaise(obs) \/ AnyRaise(tz) \/ AnyRaise(units) THEN Raise("AttributeError")
        ELSE Ok(Values(units) @@ Values(tz) @@ Values(obs))

\* parse_time with 'GMT' the only zone read as GMT
parse_time_gmt_only(value, zone, format) ==
    LET dt == strptime(value, format)
    IN  IF IsRaise(dt) THEN (IF dt.e = "ValueError" THEN Ok(None) ELSE dt)
        ELSE IF zone = None \/ zone # PyStr("GMT") THEN Ok(PyInt(mktime(dt.v)))
        ELSE Ok(PyInt(timegm(dt.v)))

\* XmlParseDriver.parse_time(value, zone)
parse_time(value, zone, format) ==
    LET dt == strptime(value, format)
    IN  IF IsRaise(dt) THEN (IF dt.e = "ValueError" THEN Ok(None) ELSE dt)
        ELSE IF zone = None \/ zone \notin SUPPORTED_TIMEZONES THEN Ok(PyInt(mktime(dt.v)))
        ELSE Ok(PyInt(timegm(dt.v)))

\* the body of parse_raw_data's loop for one field
parse_field(field, value, raw, mode_, format) ==
    IF field = "dateTime" /\ mode_ = "slave"
    THEN (IF "timezone" \in DOMAIN raw THEN parse_time(value, raw["timezone"], format)
          ELSE Raise("KeyError"))
    ELSE IF field = "timezone" \/ endswith(field, "_units") THEN Ok(value)
    ELSE LET parsed == float(value)
         IN  IF IsRaise(parsed) THEN (IF parsed.e = "ValueError" THEN Ok(None) ELSE parsed)
             ELSE parsed

\* XmlParseDriver.parse_raw_data(raw_data).  Every exception the loop body lets
\* through in the pipeline is a TypeError; were two fields to raise different
\* ones, the dict's iteration order would pick.
parse_raw_data(raw, mode_, format) ==
    LET res == [f \in DOMAIN raw |-> parse_field(f, raw[f], raw, mode_, format)]
    IN  IF AnyRaise(res) THEN Raise(res[CHOOSE f \in DOMAIN res : IsRaise(res[f])].e)
        ELSE Ok([f \in (DOMAIN res) \ {"timezone"} |-> res[f].v])

\* CONV_FUNCS without its 'km/h' entry
CONV_FUNCS_get_without_kmh(code) ==
    IF code = PyStr("Degrees F") THEN Func("FtoC")
    ELSE IF code = PyStr("hPa") THEN Func("hPa_to_mbar")
    ELSE None

\* CONV_FUNCS.get(code): the conversion function for a unit code, or None
CONV_FUNCS_get(code) ==
    IF code = PyStr("Degrees F") THEN Func("FtoC")
    ELSE IF code = PyStr("km/h") THEN Func("km_per_hour_to_meter_per_second")
    ELSE IF code = PyStr("hPa") THEN Func("hPa_to_mbar")
    ELSE None

\* _conv_func(_value): weewx.units.FtoC is (x - 32.0) * 5.0 / 9.0, the
\* km_per_hour to meter_per_second function is x * 0.277777778 (x / 3.6 to the
\* resolution of the model) and the hPa to mbar function is x * 1.0.  Arithmetic
\* on None or on a string is a TypeError.
conv_func(func, value) ==
    IF value.t \notin {"int", "float"} THEN Raise("TypeError")
    ELSE IF func = Func("FtoC")
         THEN Ok(PyFloat(((NumVal(value) - 32 * FloatScale) * 5) \div 9))
    ELSE IF func = Func("km_per_hour_to_meter_per_second")
         THEN Ok(PyFloat((NumVal(value) * 10) \div 36))
    ELSE Ok(PyFloat(NumVal(value)))

\* the body of convert_data's loop for one field
convert_field(field, data) ==
    LET units_field == field \o "_units"
    IN  IF units_field \in DOMAIN data
        THEN LET func == CONV_FUNCS_get(data[units_field])
             IN  IF func # None THEN conv_func(func, data[field]) ELSE Ok(data[field])
        ELSE Ok(data[field])

\* XmlParseDriver.convert_data(data)
convert_data(data) ==
    LET res == [f \in DOMAIN data |-> convert_field(f, data)]
    IN  IF AnyRaise(res) THEN Raise("TypeError") ELSE Ok(Values(res))

(***************************************************************************)
(* The steps of genLoopPackets' loop body after conversion.                *)
(***************************************************************************)
METRICWX == 17

\* the copy of the converted data with nothing popped off
strip_units_keeps_all(converted) == converted

\* the copy of the converted data with every xxxx_units field popped off
strip_units(converted) ==
    [f \in {g \in DOMAIN converted : ~endswith(g, "_units")} |-> converted[f]]

\* calculate_rain without the test for a counter reset
calculate_rain_no_reset_test(newtotal, oldtotal) ==
    IF newtotal # None /\ oldtotal # None
    THEN PyFloat(NumVal(newtotal) - NumVal(oldtotal))
    ELSE None

\* weewx.wxformulas.calculate_rain(newtotal, oldtotal)
calculate_rain(newtotal, oldtotal) ==
    IF newtotal # None /\ oldtotal # None
    THEN (IF NumVal(newtotal) >= NumVal(oldtotal)
          THEN PyFloat(NumVal(newtotal) - NumVal(oldtotal)) ELSE None)
    ELSE None

\* the rain test with the flag read the other way round
rain_branch_flag_set(packet_data, rain_delta_) == "rain" \in DOMAIN packet_data /\ rain_delta_

\* whether the loop body converts 'rain' to a delta
rain_branch(packet_data, rain_delta_) == "rain" \in DOMAIN packet_data /\ ~rain_delta_

\* the rain step with the delta, not the total, kept in self.old_rain
rain_step_stores_delta(packet_data, rain_delta_, old_rain_) ==
    IF rain_branch(packet_data, rain_delta_)
    THEN [data |-> [packet_data EXCEPT !["rain"] = calculate_rain(packet_data["rain"], old_rain_)],
          old_rain |-> calculate_rain(packet_data["rain"], old_rain_)]
    ELSE [data |-> packet_data, old_rain |-> old_rain_]

\* the packet data and self.old_rain after the rain step
rain_step(packet_data, rain_delta_, old_rain_) ==
    IF rain_branch(packet_data, rain_delta_)
    THEN [data |-> [packet_data EXCEPT !["rain"] = calculate_rain(packet_data["rain"], old_rain_)],
          old_rain |-> packet_data["rain"]]
    ELSE [data |-> packet_data, old_rain |-> old_rain_]

\* the loop packet with a mapped dateTime kept in master mode
make_packet_keeps_mapped(packet_data, mode_, ts_) ==
    LET p == packet_data @@ ("usUnits" :> PyInt(METRICWX))
    IN  IF mode_ = "master" THEN p @@ ("dateTime" :> ts_) ELSE p

\* the loop packet: usUnits, the packet data and, in master mode, the system
\* timestamp as dateTime
make_packet(packet_data, mode_, ts_) ==
    LET p == packet_data @@ ("usUnits" :> PyInt(METRICWX))
    IN  IF mode_ = "master" THEN ("dateTime" :> ts_) @@ p ELSE p

\* the gate with >= in place of >
gate_not_strict(packet_, last) ==
    IF "dateTime" \notin DOMAIN packet_ THEN Raise("KeyError")
    ELSE Ok(py2_ge(packet_["dateTime"], last))

\* _packet['dateTime'] > _last_dateTime
gate(packet_, last) ==
    IF "dateTime" \notin DOMAIN packet_ THEN Raise("KeyError")
    ELSE Ok(py2_gt(packet_["dateTime"], last))

(***************************************************************************)
(* The configurations and the documents of the model.                      *)
(***************************************************************************)
x_t == PyStr("t")
x_r == PyStr("r")
x_o == PyStr("o")
a_tz == PyStr("tz")
a_u == PyStr("u")

ObsMap(xpath, arg) == [obs |-> [xpath |-> xpath, arg |-> arg]]
ObsUnitsMap(xpath, arg, units) == [obs |-> [xpath |-> xpath, arg |-> arg], units |-> units]

\* the sensor maps __init__ builds from the configurations of the model
MapTime == "dateTime" :> ObsMap(x_t, None)
MapRain == "rain" :> ObsMap(x_r, None)
MapTemp == "outTemp" :> ObsMap(x_o, None)
MapTempUnitsPath == "outTemp" :> ObsUnitsMap(x_o, None, Tuple(x_o, a_u))
MapTempUnitsCode == "outTemp" :> ObsUnitsMap(x_o, None, PyStr("degree_F"))
SensorMaps ==
    {EmptyDict, MapRain, MapTime, MapTime @@ MapRain, MapTime @@ MapRain @@ MapTempUnitsPath,
     MapTime @@ MapTempUnitsCode, MapTime @@ MapTemp}

TimeZones == {None, PyStr("GMT"), Tuple(x_t, a_tz)}

\* the elements a document of the model is made of
TimeElements ==
    {Element("t", PyStr("2"), NoAttrib),
     Element("t", PyStr("3"), "tz" :> "GMT"),
     Element("t", PyStr("4"), NoAttrib),
     Element("t", PyStr("now"), NoAttrib),
     Element("t", None, NoAttrib)}
RainElements ==
    {Element("r", PyStr("5"), NoAttrib),
     Element("r", PyStr("8"), NoAttrib)}
TempElements ==
    {Element("o", PyStr("68"), "u" :> "Degrees F"),
     Element("o", PyStr("n/a"), "u" :> "Degrees F"),
     Element("o", PyStr("23.5"), NoAttrib),
     Element("o", None, NoAttrib)}

\* the documents: a base document and every document that differs from it in
\* one element (another one of its kind, or none), and the empty document
BaseTime == Element("t", PyStr("3"), "tz" :> "GMT")
BaseRain == Element("r", PyStr("5"), NoAttrib)
BaseTemp == Element("o", PyStr("68"), "u" :> "Degrees F")
Opt(S) == {<<>>} \cup {<<e>> : e \in S}
Documents ==
    {ElementTree(te \o <<BaseRain, BaseTemp>>) : te \in Opt(TimeElements)}
    \cup {ElementTree(<<BaseTime>> \o re \o <<BaseTemp>>) : re \in Opt(RainElements)}
    \cup {ElementTree(<<BaseTime, BaseRain>> \o oe) : oe \in Opt(TempElements)}
    \cup {ElementTree(<<>>)}

\* what ET.parse(self.path) can do: a parsed document, or the file is missing
\* (IOError) or malformed (ParseError)
ParseOutcomes == {Ok(d) : d \in Documents} \cup {Raise("IOError"), Raise("ParseError")}

(***************************************************************************)
(* The state after XmlParseDriver.__init__ and before genLoopPackets runs. *)
(***************************************************************************)
Init ==
    /\ xml_config_dict = Unbound
    /\ poll_interval = PyFloat((PollTicks * FloatScale) \div TicksPerSec)
    /\ mode \in {"master", "slave"}
    /\ sensor_map \in SensorMaps
    /\ rain_delta \in (IF "rain" \in DOMAIN sensor_map THEN BOOLEAN ELSE {FALSE})
    /\ time_zone \in (IF mode = "slave" THEN TimeZones ELSE {None})
    /\ date_time_format = (IF mode = "slave" THEN PyStr("%s") ELSE None)
    /\ old_rain = None
    /\ tree = None
    /\ clock \in (2 * TicksPerSec)..(3 * TicksPerSec - 1)
    /\ pc = "init"
    /\ exc = None
    /\ cycle = 0
    /\ last_dateTime = Unbound
    /\ ts = Unbound
    /\ raw_data = Unbound
    /\ parsed_data = Unbound
    /\ converted_data = Unbound
    /\ packet = Unbound
    /\ et_parse = Unbound
    /\ prev_dateTime = Unbound
    /\ emitted_max = None

\* int(time.time()) and int(time.time() - 1) at a clock reading
int_time(clock_) == PyInt(clock_ \div TicksPerSec)
int_time_no_margin(clock_) == PyInt(clock_ \div TicksPerSec)
int_time_minus_1(clock_) == PyInt((clock_ - TicksPerSec) \div TicksPerSec)

\* genLoopPackets up to the loop: the watermark is set from the clock
Start ==
    /\ pc = "init"
    /\ last_dateTime' = int_time_minus_1(clock)
    /\ pc' = "loop"
    /\ UNCHANGED <<config, old_rain, tree, clock, exc, cycle, ts, raw_data, parsed_data,
                   converted_data, packet, et_parse, prev_dateTime, emitted_max>>

\* The loop body from get_xml to the gate, as what it leaves behind: the
\* locals it assigned (Unbound: not reached), self.old_rain, where the
\* generator stands next and the exception that ended it, if any.
Raised(at, e, raw, par, con) ==
    [raw |-> raw, parsed |-> par, converted |-> con, packet |-> Unbound,
     old_rain |-> Unbound, pc |-> "raised", exc |-> [e |-> e, at |-> at]]

\* the end of the loop body with self.old_rain stored only when the packet
\* passes the gate
body_gate_rain_after_gate(raw, par, con, rs, pk, g) ==
    [raw |-> raw, parsed |-> par, converted |-> con, packet |-> pk,
     old_rain |-> IF ~IsRaise(g) /\ g.v THEN rs.old_rain ELSE Unbound,
     pc |-> IF IsRaise(g) THEN "raised" ELSE IF g.v THEN "yield" ELSE "sleep",
     exc |-> IF IsRaise(g) THEN [e |-> g.e, at |-> "gate"] ELSE None]

body_gate(raw, par, con, rs, pk, g) ==
    [raw |-> raw, parsed |-> par, converted |-> con, packet |-> pk, old_rain |-> rs.old_rain,
     pc |-> IF IsRaise(g) THEN "raised" ELSE IF g.v THEN "yield" ELSE "sleep",
     exc |-> IF IsRaise(g) THEN [e |-> g.e, at |-> "gate"] ELSE None]

body_packet(raw, par, con, rs, pk, last) == body_gate(raw, par, con, rs, pk, gate(pk, last))

body_rain(raw, par, con, rs, mode_, ts_, last) ==
    body_packet(raw, par, con, rs, make_packet(rs.data, mode_, ts_), last)

\* the converted record with the rain delta worked into it: a conversion that
\* reads self.old_rain
body_converted_reads_old_rain(raw, par, con, mode_, rain_delta_, old_rain_, ts_, last) ==
    IF IsRaise(con) THEN Raised("convert_data", con.e, raw, par, Unbound)
    ELSE body_rain(raw, par, rain_step(con.v, rain_delta_, old_rain_).data,
                   rain_step(strip_units(con.v), rain_delta_, old_rain_), mode_, ts_, last)

body_converted(raw, par, con, mode_, rain_delta_, old_rain_, ts_, last) ==
    IF IsRaise(con) THEN Raised("convert_data", con.e, raw, par, Unbound)
    ELSE body_rain(raw, par, con.v, rain_step(strip_units(con.v), rain_delta_, old_rain_),
                   mode_, ts_, last)

body_parsed(raw, par, mode_, rain_delta_, old_rain_, ts_, last) ==
    IF IsRaise(par) THEN Raised("parse_raw_data", par.e, raw, Unbound, Unbound)
    ELSE body_converted(raw, par.v, convert_data(par.v), mode_, rain_delta_, old_rain_, ts_, last)

body_raw(raw, mode_, format, rain_delta_, old_rain_, ts_, last) ==
    IF IsRaise(raw) THEN Raised("get_xml", raw.e, Unbound, Unbound, Unbound)
    ELSE body_parsed(raw.v, parse_raw_data(raw.v, mode_, format), mode_, rain_delta_,
                     old_rain_, ts_, last)

loop_body(tree_, ts_, old_rain_, last) ==
    body_raw(get_xml(tree_, sensor_map, mode, time_zone), mode, date_time_format,
             rain_delta, old_rain_, ts_, last)

Assigned(new, old) == IF new = Unbound THEN old ELSE new

\* one pass of the loop body, from read_file to the gate: it ends at the
\* yield, at the sleep or with an exception
Iterate ==
    /\ pc = "loop"
    /\ cycle < MaxCycles
    /\ \E parsed \in ParseOutcomes, d \in 0..MaxDelay :
        \E rf \in {read_file(tree, parsed)} :
        \E r \in {IF IsRaise(rf) THEN Raised("read_file", rf.e, Unbound, Unbound, Unbound)
                  ELSE loop_body(rf.v, int_time(clock + d), old_rain, last_dateTime)} :
            /\ et_parse' = parsed
            /\ tree' = IF IsRaise(rf) THEN tree ELSE rf.v
            /\ prev_dateTime' = IF packet # Unbound /\ "dateTime" \in DOMAIN packet
                                THEN packet["dateTime"] ELSE Unbound
            /\ clock' = clock + d
            /\ ts' = int_time(clock + d)
            /\ raw_data' = Assigned(r.raw, raw_data)
            /\ parsed_data' = Assigned(r.parsed, parsed_data)
            /\ converted_data' = Assigned(r.converted, converted_data)
            /\ old_rain' = Assigned(r.old_rain, old_rain)
            /\ packet' = Assigned(r.packet, packet)
            /\ pc' = r.pc
            /\ exc' = r.exc
    /\ cycle' = cycle + 1
    /\ UNCHANGED <<config, last_dateTime, emitted_max>>

\* Resume with the watermark left where it was
Resume_keeps_watermark ==
    /\ pc = "yield"
    /\ emitted_max' = IF emitted_max = None \/ py2_gt(packet["dateTime"], emitted_max)
                      THEN packet["dateTime"] ELSE emitted_max
    /\ pc' = "sleep"
    /\ UNCHANGED <<config, old_rain, tree, clock, exc, cycle, last_dateTime, ts, raw_data,
                   parsed_data, converted_data, packet, et_parse, prev_dateTime>>

\* the consumer asks for the next packet: the generator resumes after the
\* yield and moves the watermark
Resume ==
    /\ pc = "yield"
    /\ last_dateTime' = packet["dateTime"]
    /\ emitted_max' = IF emitted_max = None \/ py2_gt(packet["dateTime"], emitted_max)
                      THEN packet["dateTime"] ELSE emitted_max
    /\ pc' = "sleep"
    /\ UNCHANGED <<config, old_rain, tree, clock, exc, cycle, ts, raw_data, parsed_data,
                   converted_data, packet, et_parse, prev_dateTime>>

\* the clock ticks a sleep of secs seconds takes, to the nearest tick
sleep_ticks(secs) == (secs.f * TicksPerSec + FloatScale \div 2) \div FloatScale

\* time.sleep(self.poll_interval); a negative length is an IOError
Sleep ==
    /\ pc = "sleep"
    /\ IF poll_interval.f < 0
       THEN /\ pc' = "raised"
            /\ exc' = [e |-> "IOError", at |-> "sleep"]
            /\ clock' = clock
       ELSE /\ pc' = "loop"
            /\ exc' = exc
            /\ clock' = clock + sleep_ticks(poll_interval)
    /\ UNCHANGED <<config, old_rain, tree, cycle, last_dateTime, ts, raw_data,
                   parsed_data, converted_data, packet, et_parse, prev_dateTime, emitted_max>>

Next == Start \/ Iterate \/ Resume \/ Sleep

Spec == Init /\ [][Next]_vars

(***************************************************************************)
(* XmlParseDriver.__init__, from the options of the [XML] stanza.  An      *)
(* option is a string, or a list of strings where the stanza has commas.   *)
(***************************************************************************)
Lowers == "abcdefghijklmnopqrstuvwxyz"
Uppers == "ABCDEFGHIJKLMNOPQRSTUVWXYZ"

\* position of a character in an alphabet, or 0
IndexIn(c, alphabet) ==
    IF \E i \in 1..Len(alphabet) : SubSeq(alphabet, i, i) = c
    THEN CHOOSE i \in 1..Len(alphabet) : SubSeq(alphabet, i, i) = c
    ELSE 0

RECURSIVE MapChars(_, _, _)
MapChars(s, from, to) ==
    IF s = "" THEN ""
    ELSE LET c == SubSeq(s, 1, 1)
             i == IndexIn(c, from)
         IN  (IF i = 0 THEN c ELSE SubSeq(to, i, i)) \o MapChars(Tail(s), from, to)

\* str.upper() and str.lower()
upper(s) == MapChars(s, Lowers, Uppers)
lower(s) == MapChars(s, Uppers, Lowers)

\* dict.get(key, default)
dict_get(d, key, default) == IF key \in DOMAIN d THEN d[key] ELSE default

\* self.poll_interval: a ValueError of float() becomes MissingOption; the
\* except clause names ValueError alone, so a TypeError goes through
init_poll_interval(cfg) ==
    LET r == float(dict_get(cfg, "poll_interval", None))
    IN  IF IsRaise(r) /\ r.e = "ValueError" THEN Raise("MissingOption") ELSE r

\* self.mode
init_mode(cfg) == lower(dict_get(cfg, "timestamp_mode", PyStr("master")).s)

\* self.time_zone
init_time_zone(cfg) ==
    LET tz == dict_get(cfg, "time_zone", None)
    IN  IF tz = None THEN Ok(None)
        ELSE IF hasattr_iter(tz)
        THEN (IF Len(tz.e) = 0 THEN Raise("IndexError")
              ELSE Ok(Tuple(tz.e[1], IF Len(tz.e) > 1 THEN tz.e[2] ELSE None)))
        ELSE IF PyStr(upper(tz.s)) \in SUPPORTED_TIMEZONES THEN Ok(PyStr(upper(tz.s)))
        ELSE IF tz.s = "" THEN Raise("IndexError")
        ELSE Ok(Tuple(PyStr(SubSeq(tz.s, 1, 1)), None))

\* weeutil.weeutil.option_as_list(option)
option_as_list(option) ==
    IF option = None THEN None
    ELSE IF hasattr_iter(option) THEN option
    ELSE PyList(<<option>>)

\* units that are keys of weewx.units.conversionDict (those the model uses)
conversionDict_keys ==
    {PyStr("degree_F"), PyStr("degree_C"), PyStr("km_per_hour"), PyStr("mile_per_hour"),
     PyStr("hPa"), PyStr("mbar"), PyStr("inHg"), PyStr("inch"), PyStr("mm")}

\* the sensor map entry of one field, from its obs option and its units
\* option (None when there is none)
init_field_map(m, um) ==
    LET mapping == option_as_list(m)
        obs == [xpath |-> mapping.e[1],
                arg |-> IF Len(mapping.e) > 1 THEN mapping.e[2] ELSE None]
    IN  IF um = None THEN [obs |-> obs]
        ELSE IF hasattr_iter(um)
        THEN [obs |-> obs,
              units |-> Tuple(option_as_list(um).e[1],
                              IF Len(option_as_list(um).e) > 1
                              THEN option_as_list(um).e[2] ELSE None)]
        ELSE IF um \in conversionDict_keys THEN [obs |-> obs, units |-> um]
        ELSE [obs |-> obs]

\* self.sensor_map
init_sensor_map(cfg) ==
    LET map_dict == dict_get(cfg, "sensor_map", EmptyDict)
        obs_dict == dict_get(map_dict, "obs", EmptyDict)
        units_dict == dict_get(map_dict, "units", EmptyDict)
    IN  [f \in DOMAIN obs_dict |-> init_field_map(obs_dict[f], dict_get(units_dict, f, None))]

\* weeutil.weeutil.to_bool(x)
to_bool(x) ==
    IF x.t = "bool" THEN Ok(x.b)
    ELSE IF x.t = "str" /\ lower(x.s) \in {"true", "yes"} THEN Ok(TRUE)
    ELSE IF x.t = "str" /\ lower(x.s) \in {"false", "no"} THEN Ok(FALSE)
    ELSE IF x.t = "str" /\ IsDigits(x.s) THEN Ok(DecimalVal(x.s) # 0)
    ELSE Raise("ValueError")

\* self.rain_delta
init_rain_delta(cfg) == to_bool(dict_get(cfg, "rain_delta", PyBool(FALSE)))

\* the first exception __init__ meets, or None
init_raises(cfg) ==
    IF IsRaise(init_poll_interval(cfg)) THEN init_poll_interval(cfg)
    ELSE IF IsRaise(init_time_zone(cfg)) THEN init_time_zone(cfg)
    ELSE IF IsRaise(init_rain_delta(cfg)) THEN init_rain_delta(cfg)
    ELSE None

\* the options of the model
OptKey(key, values) == {EmptyDict} \cup {key :> v : v \in values}

PollIntervalOptions == {PyStr("10"), PyStr("2.5"), PyStr("0"), PyStr("-1"), PyStr("abc")}
ModeOptions == {PyStr("master"), PyStr("Slave")}
TimeZoneOptions ==
    {PyStr("gmt"), PyStr("UTC"), PyStr("tz"), PyList(<<x_t, a_tz>>), PyList(<<x_t>>)}
SensorMapOptions ==
    {[obs |-> "dateTime" :> x_t],
     [obs |-> ("dateTime" :> x_t) @@ ("outTemp" :> PyList(<<x_o, PyStr("v")>>)),
      units |-> "outTemp" :> PyList(<<x_o, a_u>>)],
     [obs |-> "outTemp" :> x_o, units |-> "outTemp" :> PyStr("degree_F")],
     [obs |-> "outTemp" :> x_o, units |-> "outTemp" :> PyStr("furlong")],
     [obs |-> "outTemp" :> x_o, units |-> "outTemp" :> PyStr("o/units")]}
RainDeltaOptions == {PyStr("True"), PyStr("false"), PyStr("maybe")}

ConfigDicts ==
    {p @@ m @@ z @@ sm @@ rd @@ ("date_time_format" :> PyStr("%s")) :
        p \in OptKey("poll_interval", PollIntervalOptions),
        m \in OptKey("timestamp_mode", ModeOptions),
        z \in OptKey("time_zone", TimeZoneOptions),
        sm \in OptKey("sensor_map", SensorMapOptions),
        rd \in OptKey("rain_delta", RainDeltaOptions)}

\* before the driver is constructed
CtorInit ==
    /\ xml_config_dict \in ConfigDicts
    /\ poll_interval = Unbound
    /\ mode = Unbound
    /\ date_time_format = Unbound
    /\ time_zone = Unbound
    /\ sensor_map = Unbound
    /\ rain_delta = Unbound
    /\ old_rain = Unbound
    /\ tree = Unbound
    /\ clock = 2 * TicksPerSec
    /\ pc = "new"
    /\ exc = None
    /\ cycle = 0
    /\ last_dateTime = Unbound
    /\ ts = Unbound
    /\ raw_data = Unbound
    /\ parsed_data = Unbound
    /\ converted_data = Unbound
    /\ packet = Unbound
    /\ et_parse = Unbound
    /\ prev_dateTime = Unbound
    /\ emitted_max = None

\* loader(): XmlParseDriver(**config_dict[DRIVER_NAME]).  The driver is ready
\* for genLoopPackets, or the exception of __init__ ends the start-up.
XmlParseDriver_init ==
    /\ pc = "new"
    /\ IF init_raises(xml_config_dict) # None
       THEN /\ pc' = "raised"
            /\ exc' = [e |-> init_raises(xml_config_dict).e, at |-> "__init__"]
            /\ UNCHANGED <<poll_interval, mode, date_time_format, time_zone, sensor_map,
                           rain_delta, old_rain, tree>>
       ELSE /\ pc' = "init"
            /\ exc' = None
            /\ tree' = None
            /\ poll_interval' = init_poll_interval(xml_config_dict).v
            /\ mode' = init_mode(xml_config_dict)
            /\ date_time_format' = dict_get(xml_config_dict, "date_time_format", None)
            /\ time_zone' = init_time_zone(xml_config_dict).v
            /\ sensor_map' = init_sensor_map(xml_config_dict)
            /\ rain_delta' = init_rain_delta(xml_config_dict).v
            /\ old_rain' = None
    /\ UNCHANGED <<xml_config_dict, clock, cycle, last_dateTime, ts, raw_data, parsed_data,
                   converted_data, packet, et_parse, prev_dateTime, emitted_max>>

CtorNext == XmlParseDriver_init \/ Start

CtorSpec == CtorInit /\ [][CtorNext]_vars

(***************************************************************************)
(* The loop body taken one call at a time, on a wider range of documents:  *)
(* the first iteration of genLoopPackets from the point where read_file    *)
(* has returned and _ts has been read.                                     *)
(***************************************************************************)
x_w == PyStr("w")
x_b == PyStr("b")

\* every field mapped, with and without XPath units
PipeMapPlain ==
    MapTime @@ MapRain @@ MapTemp @@ ("windSpeed" :> ObsMap(x_w, None))
    @@ ("barometer" :> ObsMap(x_b, None))
PipeMapUnits ==
    MapTime @@ MapRain @@ MapTempUnitsPath
    @@ ("windSpeed" :> ObsUnitsMap(x_w, None, Tuple(x_w, a_u)))
    @@ ("barometer" :> ObsUnitsMap(x_b, None, Tuple(x_b, a_u)))
\* a sensor map that also maps the field 'usUnits'
PipeMapUsUnits == PipeMapPlain @@ ("usUnits" :> ObsMap(x_b, None))
PipeSensorMaps == {PipeMapPlain, PipeMapUnits, PipeMapUsUnits}

PipeTimeZones == {None, PyStr("UTC"), Tuple(x_t, a_tz)}

\* an element with or without the one attribute of its kind
WithAttrib(name, values) == {NoAttrib} \cup {name :> v : v \in values}

PipeTimeElements ==
    {Element("t", PyStr(v), a) :
        v \in {"3", "12"}, a \in WithAttrib("tz", {"GMT", "UTC", "gmt", "EST", "GMT+1"})}
PipeRainElements == {Element("r", PyStr(v), NoAttrib) : v \in {"0", "5", "8", "n/a"}}
PipeTempElements ==
    {Element("o", PyStr(v), a) :
        v \in {"68", "32", "212", "-40", "n/a"},
        a \in WithAttrib("u", {"Degrees F", "degree_F", "Degrees C"})}
PipeWindElements ==
    {Element("w", PyStr(v), a) :
        v \in {"10", "36"}, a \in WithAttrib("u", {"km/h", "km_per_hour"})}
PipeBaroElements ==
    {Element("b", PyStr(v), a) :
        v \in {"1013", "980.5"}, a \in WithAttrib("u", {"hPa", "mbar"})}

\* the documents: a base document and every document that differs from it in
\* one element
PipeBaseTime == Element("t", PyStr("12"), "tz" :> "GMT")
PipeBaseRain == Element("r", PyStr("8"), NoAttrib)
PipeBaseTemp == Element("o", PyStr("68"), "u" :> "Degrees F")
PipeBaseWind == Element("w", PyStr("10"), "u" :> "km/h")
PipeBaseBaro == Element("b", PyStr("1013"), "u" :> "hPa")
\* documents in which two elements match the path of outTemp: one with text 32
\* and no attribute, one with text 68 and the attribute u, in either order
PipeOtherTemp == Element("o", PyStr("32"), NoAttrib)
PipeTwinDocuments ==
    {ElementTree(<<PipeBaseTime, PipeBaseRain, PipeOtherTemp, PipeBaseTemp, PipeBaseWind,
                   PipeBaseBaro>>),
     ElementTree(<<PipeBaseTime, PipeBaseRain, PipeBaseTemp, PipeBaseWind, PipeOtherTemp,
                   PipeBaseBaro>>)}
PipeDocuments ==
    {ElementTree(<<e, PipeBaseRain, PipeBaseTemp, PipeBaseWind, PipeBaseBaro>>) :
        e \in PipeTimeElements}
    \cup {ElementTree(<<PipeBaseTime, e, PipeBaseTemp, PipeBaseWind, PipeBaseBaro>>) :
        e \in PipeRainElements}
    \cup {ElementTree(<<PipeBaseTime, PipeBaseRain, e, PipeBaseWind, PipeBaseBaro>>) :
        e \in PipeTempElements}
    \cup {ElementTree(<<PipeBaseTime, PipeBaseRain, PipeBaseTemp, e, PipeBaseBaro>>) :
        e \in PipeWindElements}
    \cup {ElementTree(<<PipeBaseTime, PipeBaseRain, PipeBaseTemp, PipeBaseWind, e>>) :
        e \in PipeBaroElements}
    \cup PipeTwinDocuments

\* the totals self.old_rain can hold from earlier iterations
PipeOldRains == {None, PyFloat(5 * FloatScale), PyFloat(8 * FloatScale)}

\* the state after read_file and the reading of _ts
PipeInit ==
    /\ xml_config_dict = Unbound
    /\ poll_interval = PyFloat((PollTicks * FloatScale) \div TicksPerSec)
    /\ mode \in {"master", "slave"}
    /\ sensor_map \in PipeSensorMaps
    /\ rain_delta \in BOOLEAN
    /\ time_zone \in (IF mode = "slave" THEN PipeTimeZones ELSE {None})
    /\ date_time_format = (IF mode = "slave" THEN PyStr("%s") ELSE None)
    /\ old_rain \in PipeOldRains
    /\ tree \in PipeDocuments
    /\ et_parse = Ok(tree)
    /\ clock = 2 * TicksPerSec
    /\ pc = "get_xml"
    /\ exc = None
    /\ cycle = 1
    /\ last_dateTime = int_time_minus_1(clock)
    /\ ts = int_time(clock)
    /\ raw_data = Unbound
    /\ parsed_data = Unbound
    /\ converted_data = Unbound
    /\ packet = Unbound
    /\ prev_dateTime = Unbound
    /\ emitted_max = None

\* where a call's result leaves genLoopPackets: at the next call, or ended by
\* the exception
AfterCall(result, at, next) ==
    /\ pc' = IF IsRaise(result) THEN "raised" ELSE next
    /\ exc' = IF IsRaise(result) THEN [e |-> result.e, at |-> at] ELSE None

\* _raw_data = self.get_xml()
GetXml ==
    /\ pc = "get_xml"
    /\ \E r \in {get_xml(tree, sensor_map, mode, time_zone)} :
        /\ raw_data' = IF IsRaise(r) THEN raw_data ELSE r.v
        /\ AfterCall(r, "get_xml", "parse_raw_data")
    /\ UNCHANGED <<config, old_rain, tree, clock, cycle, last_dateTime, ts, parsed_data,
                   converted_data, packet, et_parse, prev_dateTime, emitted_max>>

\* _parsed_data = self.parse_raw_data(_raw_data)
ParseRawData ==
    /\ pc = "parse_raw_data"
    /\ \E r \in {parse_raw_data(raw_data, mode, date_time_format)} :
        /\ parsed_data' = IF IsRaise(r) THEN parsed_data ELSE r.v
        /\ AfterCall(r, "parse_raw_data", "convert_data")
    /\ UNCHANGED <<config, old_rain, tree, clock, cycle, last_dateTime, ts, raw_data,
                   converted_data, packet, et_parse, prev_dateTime, emitted_max>>

\* _converted_data = self.convert_data(_parsed_data)
ConvertData ==
    /\ pc = "convert_data"
    /\ \E r \in {convert_data(parsed_data)} :
        /\ converted_data' = IF IsRaise(r) THEN converted_data ELSE r.v
        /\ AfterCall(r, "convert_data", "packet")
    /\ UNCHANGED <<config, old_rain, tree, clock, cycle, last_dateTime, ts, raw_data,
                   parsed_data, packet, et_parse, prev_dateTime, emitted_max>>

\* the rest of the loop body: the units fields popped off, the rain step, the
\* packet and the gate
BuildPacket ==
    /\ pc = "packet"
    /\ \E rs \in {rain_step(strip_units(converted_data), rain_delta, old_rain)} :
        \E pk \in {make_packet(rs.data, mode, ts)} :
        \E g \in {gate(pk, last_dateTime)} :
            /\ old_rain' = rs.old_rain
            /\ packet' = pk
            /\ pc' = IF IsRaise(g) THEN "raised" ELSE IF g.v THEN "yield" ELSE "sleep"
            /\ exc' = IF IsRaise(g) THEN [e |-> g.e, at |-> "gate"] ELSE None
    /\ UNCHANGED <<config, tree, clock, cycle, last_dateTime, ts, raw_data, parsed_data,
                   converted_data, et_parse, prev_dateTime, emitted_max>>

PipeNext == GetXml \/ ParseRawData \/ ConvertData \/ BuildPacket

PipeSpec == PipeInit /\ [][PipeNext]_vars

(***************************************************************************)
(* The claims.                                                             *)
(***************************************************************************)

\* C1: the dateTime values of the packets genLoopPackets yields are strictly
\* increasing: a packet being yielded has a dateTime greater than that of
\* every packet yielded before it, in master and in slave mode.
C1_StrictlyIncreasing ==
    pc = "yield" => (emitted_max = None \/ py2_gt(packet["dateTime"], emitted_max))

\* a second packet is being yielded in slave mode
C1_Witness == pc = "yield" /\ emitted_max # None /\ mode = "slave"

\* C2: a loop iteration that reaches the gate yields its packet if and only
\* if the packet's dateTime is strictly greater than the watermark; the
\* watermark becomes the dateTime of a yielded packet when the generator
\* resumes, and nothing else moves it (a suppressed iteration and the sleep
\* leave it alone).
C2_Step ==
    /\ (pc = "loop" /\ pc' = "yield") =>
           (py2_gt(packet'["dateTime"], last_dateTime) /\ last_dateTime' = last_dateTime)
    /\ (pc = "loop" /\ pc' = "sleep") =>
           (~py2_gt(packet'["dateTime"], last_dateTime) /\ last_dateTime' = last_dateTime)
    /\ pc = "yield" => (pc' = "sleep" /\ last_dateTime' = packet["dateTime"])
    /\ pc = "sleep" => last_dateTime' = last_dateTime
C2_GateAndWatermark == [][C2_Step]_vars

\* candidate timestamps T, T-1, T+1 in three iterations: the first was
\* yielded (the watermark is T), the second was suppressed and the third is
\* being yielded
C2_Witness ==
    /\ pc = "yield"
    /\ cycle = 3
    /\ \E T \in 1..9 :
        /\ last_dateTime = PyInt(T)
        /\ prev_dateTime = PyInt(T - 1)
        /\ packet["dateTime"] = PyInt(T + 1)

\* C3 as stated: the record of the first loop iteration always passes the
\* gate, in master and in slave mode: no first iteration ends suppressed.
C3_FirstCycleAlwaysEmitted == (cycle = 1 /\ pc = "sleep") => emitted_max # None

\* C3, amended: in master mode the record of a first iteration that reaches
\* the gate is always yielded; in slave mode a first iteration is suppressed
\* exactly when its dateTime is not strictly greater than the initial
\* watermark.
C3_FirstCycleMasterEmitted ==
    (cycle = 1 /\ pc = "sleep" /\ emitted_max = None) =>
        (mode = "slave" /\ ~py2_gt(packet["dateTime"], last_dateTime))

\* the first iteration is being yielded in master mode
C3_Witness == mode = "master" /\ cycle = 1 /\ pc = "yield"

\* whether the latest iteration assigned _raw_data
RawAssigned == cycle > 0 /\ ~(pc = "raised" /\ exc.at \in {"read_file", "get_xml"})

\* whether a raw value is a string that matches the date-time format
MatchesFormat(value) == ~IsRaise(strptime(value, date_time_format))

\* C4: in slave mode, an iteration whose raw dateTime is None or does not
\* match the date-time format ends suppressed, with a None dateTime and no
\* exception, and leaves the watermark alone.
C4_BadTimeSuppressed ==
    (/\ mode = "slave"
     /\ pc \in {"yield", "sleep", "raised"}
     /\ RawAssigned
     /\ "dateTime" \in DOMAIN raw_data
     /\ ~MatchesFormat(raw_data["dateTime"]))
    => (/\ pc = "sleep"
        /\ exc = None
        /\ packet["dateTime"] = None
        /\ last_dateTime # None)

\* C5: no condition met in a loop iteration ends genLoopPackets with an
\* exception.
C5_NoCycleRaises == pc # "raised"

\* the XPath specs and attribute names of the configurations
XPaths == {x_t, x_r, x_o}
Attribs == {None, a_tz, a_u}

\* C6: get_xpath returns None when the XPath spec matches no element of the
\* tree, with and without an attribute asked for.
C6_NoMatchYieldsNone ==
    tree # None =>
        \A xp \in XPaths, at \in Attribs :
            find(tree, xp) = None => get_xpath(tree, xp, at) = Ok(None)

\* C7: while no document has been parsed (the tree is None), every lookup of
\* the sensor map returns None and the iteration ends without an exception.
C7_NoTreeYieldsNone ==
    (cycle > 0 /\ tree = None) =>
        /\ pc # "raised"
        /\ \A f \in DOMAIN sensor_map :
               get_xpath(tree, sensor_map[f].obs.xpath, sensor_map[f].obs.arg) = Ok(None)

\* C8: read_file lets no exception through; when ET.parse fails the tree is
\* the one held before, and when it succeeds the tree is the parsed document.
C8_Step ==
    (pc = "loop" /\ pc' # "loop") =>
        /\ ~(pc' = "raised" /\ exc'.at = "read_file")
        /\ IsRaise(et_parse') => tree' = tree
        /\ ~IsRaise(et_parse') => tree' = et_parse'.v
C8_ReadFileFrame == [][C8_Step]_vars

\* a failed read with an earlier parsed tree still in place
C8_Witness == et_parse # Unbound /\ IsRaise(et_parse) /\ tree # None /\ pc # "raised"

\* a field parse_raw_data treats as a numeric observation
IsObservationField(f) ==
    ~(f = "dateTime" /\ mode = "slave") /\ f # "timezone" /\ ~endswith(f, "_units")

IsNumericString(x) == x.t = "str" /\ ~IsRaise(float(x))

\* C9: for every observation field, parse_raw_data gives the float of a
\* numeric raw string and None for any other raw value, None included, and
\* does not raise.
C9_ParseTotal ==
    RawAssigned =>
        \A f \in DOMAIN raw_data :
            IsObservationField(f) =>
                parse_field(f, raw_data[f], raw_data, mode, date_time_format)
                    = Ok(IF IsNumericString(raw_data[f]) THEN float(raw_data[f]).v ELSE None)

\* whether the latest iteration assigned _parsed_data
ParsedAssigned == RawAssigned /\ ~(pc = "raised" /\ exc.at = "parse_raw_data")

\* no conversion applies to a field: it has no units field, its unit code has
\* no conversion function, or its value is None
NoConversionApplies(f, data) ==
    \/ (f \o "_units") \notin DOMAIN data
    \/ CONV_FUNCS_get(data[f \o "_units"]) = None
    \/ data[f] = None

\* C10: convert_data leaves the value of a field unchanged, and does not
\* raise, whenever no conversion applies to the field.
C10_Unconverted ==
    ParsedAssigned =>
        \A f \in DOMAIN parsed_data :
            NoConversionApplies(f, parsed_data) =>
                convert_field(f, parsed_data) = Ok(parsed_data[f])

\* whether the latest iteration assigned _converted_data
ConvertedAssigned == ParsedAssigned /\ ~(pc = "raised" /\ exc.at = "convert_data")

\* whether a field of the sensor map has a fixed unit code
HasFixedUnit(f) == "units" \in DOMAIN sensor_map[f] /\ sensor_map[f].units.t = "str"

\* the conversion function that exists for a unit code: the one of CONV_FUNCS,
\* or the one weewx.units.conversionDict holds from a WeeWX unit to the
\* METRICWX unit of its group
UnitConversion(code) ==
    IF CONV_FUNCS_get(code) # None THEN CONV_FUNCS_get(code)
    ELSE IF code = PyStr("degree_F") THEN Func("FtoC")
    ELSE IF code = PyStr("km_per_hour") THEN Func("km_per_hour_to_meter_per_second")
    ELSE None

\* C11: a field whose units mapping is a fixed unit code for which a
\* conversion function exists is converted with that function, although the
\* record holds no '<field>_units' entry.
C11_FixedUnitConverted ==
    ConvertedAssigned =>
        \A f \in DOMAIN sensor_map :
            (/\ HasFixedUnit(f)
             /\ UnitConversion(sensor_map[f].units) # None
             /\ parsed_data[f].t = "float")
            => converted_data[f]
                   = conv_func(UnitConversion(sensor_map[f].units), parsed_data[f]).v

\* an iteration that built its packet and went on to the gate
ReachesGate == pc = "loop" /\ pc' \in {"yield", "sleep"}

\* C13 as stated: with rain_delta set, a 'rain' present in the record is
\* emitted as the difference between the current total and the stored one;
\* with rain_delta not set, 'rain' is emitted as read.
C13_StatedStep ==
    (ReachesGate /\ "rain" \in DOMAIN packet') =>
        IF rain_delta
        THEN (old_rain # None /\ py2_ge(converted_data'["rain"], old_rain)) =>
                 packet'["rain"] = PyFloat(NumVal(converted_data'["rain"]) - NumVal(old_rain))
        ELSE packet'["rain"] = converted_data'["rain"]
C13_DeltaWhenFlagSet == [][C13_StatedStep]_vars

\* C13, amended: with rain_delta not set (the source holds a running total),
\* 'rain' is emitted as the difference between the current total and the
\* stored one (5.0 then 8.0 gives 3.0); with rain_delta set (the source
\* holds a delta already), 'rain' is emitted as read.
C13_Step ==
    (ReachesGate /\ "rain" \in DOMAIN packet') =>
        IF ~rain_delta
        THEN (old_rain # None /\ py2_ge(converted_data'["rain"], old_rain)) =>
                 packet'["rain"] = PyFloat(NumVal(converted_data'["rain"]) - NumVal(old_rain))
        ELSE packet'["rain"] = converted_data'["rain"]
C13_DeltaWhenFlagClear == [][C13_Step]_vars

\* a total of 8.0 after a stored 5.0 has been emitted as 3.0
C13_Witness ==
    /\ pc \in {"yield", "sleep"}
    /\ ~rain_delta
    /\ "rain" \in DOMAIN packet
    /\ converted_data["rain"] = PyFloat(8 * FloatScale)
    /\ packet["rain"] = PyFloat(3 * FloatScale)

\* whether the iteration being taken applies the rain transform
TransformApplied ==
    /\ pc' \in {"yield", "sleep"} \/ (pc' = "raised" /\ exc'.at = "gate")
    /\ "rain" \in DOMAIN converted_data'
    /\ ~rain_delta

\* C15: an iteration that applies the rain transform leaves in self.old_rain
\* the total it read, as it was before the transform; any other iteration,
\* and every other step, leaves self.old_rain as it was.
C15_Step ==
    IF pc = "loop" /\ pc' # "loop" /\ TransformApplied
    THEN old_rain' = converted_data'["rain"]
    ELSE old_rain' = old_rain
C15_OldRainFrame == [][C15_Step]_vars

\* a counter reset: a stored total overwritten by a lower one
C15_Witness ==
    /\ pc \in {"yield", "sleep"}
    /\ cycle >= 2
    /\ "rain" \in DOMAIN packet
    /\ packet["rain"] = None
    /\ old_rain = PyFloat(5 * FloatScale)

C18_StatedStep ==
    ReachesGate =>
        IF mode = "master" THEN packet'["dateTime"] = int_time(clock)
        ELSE packet'["dateTime"] = parsed_data'["dateTime"]
C18_StampBeforeRead == [][C18_StatedStep]_vars

\* C18, amended: in master mode the packet's dateTime is _ts, the second of
\* the wall clock read after read_file has returned, whatever dateTime the
\* document gave; in slave mode it is the parsed dateTime.
C18_Step ==
    ReachesGate =>
        IF mode = "master"
        THEN packet'["dateTime"] = ts' /\ ts' = int_time(clock') /\ clock' >= clock
        ELSE packet'["dateTime"] = parsed_data'["dateTime"]
C18_StampAfterRead == [][C18_Step]_vars

\* master mode with a mapped dateTime, first iteration: the read ran into the
\* next second, and the packet carries that second (the watermark shows the
\* second genLoopPackets started in)
C18_Witness ==
    /\ mode = "master"
    /\ cycle = 1
    /\ pc = "yield"
    /\ "dateTime" \in DOMAIN parsed_data
    /\ NumVal(packet["dateTime"]) = NumVal(last_dateTime) + 2 * FloatScale

\* the keys C16 gives the raw record: the configured fields, a units key for
\* each field whose units are an XPath spec, and 'timezone' in slave mode
ExpectedRawKeys ==
    DOMAIN sensor_map
    \cup {f \o "_units" : f \in {g \in DOMAIN sensor_map :
                                     /\ "units" \in DOMAIN sensor_map[g]
                                     /\ sensor_map[g].units.t = "tuple"}}
    \cup (IF mode = "slave" THEN {"timezone"} ELSE {})

\* C16: on the tree read_file left, get_xml does not raise and returns a
\* record with exactly the expected keys.
C16_GetXmlTotal ==
    (cycle > 0 /\ pc # "loop") =>
        /\ ~IsRaise(get_xml(tree, sensor_map, mode, time_zone))
        /\ DOMAIN get_xml(tree, sensor_map, mode, time_zone).v = ExpectedRawKeys

\* the unit codes the claims give a conversion
ConvertedCodes == {PyStr("Degrees F"), PyStr("km/h"), PyStr("hPa")}

\* x is within tol/1000 of milli/1000, for a float x
About(x, milli, tol) ==
    /\ x.f * 1000 - milli * FloatScale <= tol * FloatScale
    /\ milli * FloatScale - x.f * 1000 <= tol * FloatScale

\* C12: convert_data converts a value tagged 'Degrees F' from Fahrenheit to
\* Celsius (68.0 gives 20.0, 32.0 gives 0.0, 212.0 gives 100.0), a value
\* tagged 'km/h' to metres per second (10.0 gives about 2.7778, 36.0 gives
\* about 10.0), leaves a value tagged 'hPa' numerically unchanged, and leaves
\* a value tagged with any other code as it was.
C12_ConversionTable ==
    converted_data # Unbound =>
        \A f \in DOMAIN parsed_data :
            (f \o "_units") \in DOMAIN parsed_data =>
                LET u == parsed_data[f \o "_units"]
                    v == parsed_data[f]
                    c == converted_data[f]
                IN  /\ u \notin ConvertedCodes => c = v
                    /\ u = PyStr("hPa") => c = v
                    /\ (u = PyStr("Degrees F") /\ v = PyFloat(68 * FloatScale)) =>
                           c = PyFloat(20 * FloatScale)
                    /\ (u = PyStr("Degrees F") /\ v = PyFloat(32 * FloatScale)) =>
                           c = PyFloat(0)
                    /\ (u = PyStr("Degrees F") /\ v = PyFloat(212 * FloatScale)) =>
                           c = PyFloat(100 * FloatScale)
                    /\ (u = PyStr("km/h") /\ v = PyFloat(10 * FloatScale)) =>
                           About(c, 2778, 1)
                    /\ (u = PyStr("km/h") /\ v = PyFloat(36 * FloatScale)) =>
                           About(c, 10000, 1)

\* 68.0 'Degrees F', 10.0 'km/h' and 1013.0 'hPa' have been converted
C12_Witness ==
    /\ converted_data # Unbound
    /\ "outTemp_units" \in DOMAIN parsed_data
    /\ parsed_data["outTemp"] = PyFloat(68 * FloatScale)
    /\ parsed_data["outTemp_units"] = PyStr("Degrees F")
    /\ converted_data["outTemp"] = PyFloat(20 * FloatScale)
    /\ parsed_data["windSpeed_units"] = PyStr("km/h")
    /\ converted_data["barometer"] = PyFloat(1013 * FloatScale)
    /\ parsed_data["barometer_units"] = PyStr("hPa")

\* C14: where the rain transform is applied, it does not raise and the
\* 'rain' it leaves is None or not negative: None when no total is stored
\* yet or the current one is None, and None or 0 when the current total is
\* lower than the stored one.
C14_Step ==
    (pc = "packet" /\ pc' # "packet" /\ "rain" \in DOMAIN converted_data /\ ~rain_delta) =>
        /\ pc' # "raised"
        /\ packet'["rain"] = None \/ (packet'["rain"].t = "float" /\ packet'["rain"].f >= 0)
        /\ (old_rain = None \/ converted_data["rain"] = None) => packet'["rain"] = None
        /\ (/\ old_rain # None
            /\ converted_data["rain"] # None
            /\ NumVal(converted_data["rain"]) < NumVal(old_rain))
           => packet'["rain"] \in {None, PyFloat(0)}
C14_DeltaNeverNegative == [][C14_Step]_vars

\* the transform has been applied to a current value of None
C14_Witness ==
    /\ pc \in {"yield", "sleep"}
    /\ ~rain_delta
    /\ converted_data["rain"] = None
    /\ packet["rain"] = None

\* C19: a raw dateTime that matches the format is parsed to an integer: the
\* date-time read as GMT when the record's timezone is exactly 'GMT' or
\* 'UTC', and read as local time for any other timezone, None included.
C19_ZoneSelectsClock ==
    (mode = "slave" /\ parsed_data # Unbound
     /\ "dateTime" \in DOMAIN raw_data /\ MatchesFormat(raw_data["dateTime"]))
    => parsed_data["dateTime"]
           = PyInt(DecimalVal(raw_data["dateTime"].s)
                   - (IF raw_data["timezone"] \in {PyStr("GMT"), PyStr("UTC")}
                      THEN 0 ELSE TZOffset))

\* a date-time with the zone 'gmt', which is no supported code, has been read
\* as local time
C19_Witness ==
    /\ mode = "slave"
    /\ parsed_data # Unbound
    /\ raw_data["timezone"] = PyStr("gmt")
    /\ parsed_data["dateTime"] = PyInt(12 - TZOffset)

\* the poll_interval option __init__ was given, None when there is none
PollIntervalOption == dict_get(xml_config_dict, "poll_interval", None)

\* a poll interval that is missing, not a number or not greater than zero
BadPollInterval ==
    \/ IsRaise(float(PollIntervalOption))
    \/ float(PollIntervalOption).v.f <= 0

\* C20: with a poll_interval option that is missing, not a number or not
\* greater than zero, __init__ raises: the driver is not constructed and
\* genLoopPackets never runs.
C20_BadPollIntervalAborts ==
    (pc # "new" /\ BadPollInterval) => (pc = "raised" /\ exc.at = "__init__")

\* whether the latest iteration came to the test of the packet's dateTime
GateReached == pc \in {"yield", "sleep"} \/ (pc = "raised" /\ exc.at = "gate")

\* C21: in slave mode the sensor map has a 'dateTime' entry whenever an
\* iteration comes to the gate: a slave-mode driver without a dateTime
\* mapping never gets that far.
C21_SlaveMapsDateTime ==
    (mode = "slave" /\ cycle > 0 /\ GateReached) => "dateTime" \in DOMAIN sensor_map

\* C22: an iteration that works on the same tree as the one before it, with
\* the same configuration, gets the same raw, parsed and converted records,
\* and get_xml, parse_raw_data and convert_data leave the tree, the sensor
\* map and the watermark as they were.
C22_Step ==
    (pc = "loop" /\ pc' # "loop" /\ cycle >= 1 /\ tree' = tree) =>
        /\ raw_data' = raw_data
        /\ parsed_data' = parsed_data
        /\ converted_data' = converted_data
        /\ sensor_map' = sensor_map
        /\ last_dateTime' = last_dateTime
        /\ ("rain" \notin DOMAIN converted_data' \/ rain_delta) => old_rain' = old_rain
C23_UnitTagFixed == pc = "yield" => packet["usUnits"] = PyInt(METRICWX)

\* the elements of the tree that match an XPath spec before position i
EarlierMatch(xpath, i) == \E j \in 1..(i - 1) : PyStr(tree.root[j].tag) = xpath

\* what C24 gives for a lookup whose first match is the element e
FirstMatchValue(e, attrib) ==
    IF attrib = None THEN e.text
    ELSE IF attrib.s \in DOMAIN e.attrib THEN PyStr(e.attrib[attrib.s])
    ELSE None

\* C24: every value of the raw record comes from the first element, in
\* document order, that matches its XPath spec: the element's text, or its
\* attribute when one is named, None when that element lacks the attribute
\* although a later match has it.
C24_FirstMatchUsed ==
    raw_data # Unbound =>
        \A f \in DOMAIN sensor_map : \A i \in 1..Len(tree.root) :
            (PyStr(tree.root[i].tag) = sensor_map[f].obs.xpath
             /\ ~EarlierMatch(sensor_map[f].obs.xpath, i))
            => /\ raw_data[f] = FirstMatchValue(tree.root[i], sensor_map[f].obs.arg)
               /\ ("units" \in DOMAIN sensor_map[f]
                   /\ sensor_map[f].units.e[1] = sensor_map[f].obs.xpath)
                  => raw_data[f \o "_units"]
                         = FirstMatchValue(tree.root[i], sensor_map[f].units.e[2])

\* two elements match outTemp's path, the first without the units attribute:
\* its text is the value and the units are None
C24_Witness ==
    /\ raw_data # Unbound
    /\ tree \in PipeTwinDocuments
    /\ raw_data["outTemp"] = PyStr("32")
    /\ "outTemp_units" \in DOMAIN raw_data
    /\ raw_data["outTemp_units"] = None

\* __init__ has ended, with the driver constructed or with an exception
Constructed == pc \in {"init", "loop"}
InitFailed == pc = "raised" /\ exc.at = "__init__"

\* C25: when the poll_interval option is absent or cannot be converted to a
\* float, __init__ fails with MissingOption and with no other exception.
C25_MissingOptionRaised ==
    (pc # "new" /\ IsRaise(float(PollIntervalOption))) =>
        (InitFailed /\ exc.e = "MissingOption")

\* the time_zone option __init__ was given, None when there is none
TimeZoneOption == dict_get(xml_config_dict, "time_zone", None)

\* C28: a time_zone option that is one string is stored as its upper-case
\* form when that is a supported zone code, and as the pair (the whole
\* string, None) otherwise.
C28_SimplePathKeptWhole ==
    (Constructed /\ TimeZoneOption.t = "str") =>
        IF PyStr(upper(TimeZoneOption.s)) \in {PyStr("GMT"), PyStr("UTC")}
        THEN time_zone = PyStr(upper(TimeZoneOption.s))
        ELSE time_zone = Tuple(TimeZoneOption, None)

\* the units option of a field, None when there is none
UnitsOption(f) ==
    dict_get(dict_get(dict_get(xml_config_dict, "sensor_map", EmptyDict), "units", EmptyDict),
             f, None)

\* C29: a units option that is one string is stored as a fixed unit code
\* when it names a unit WeeWX knows, and as the XPath spec (the string, None)
\* otherwise; a units option with an attribute is stored as (path, attribute).
C29_UnitsPathWithoutAttribute ==
    Constructed =>
        \A f \in DOMAIN sensor_map :
            /\ (UnitsOption(f).t = "str" /\ UnitsOption(f) \in conversionDict_keys) =>
                   sensor_map[f].units = UnitsOption(f)
            /\ (UnitsOption(f).t = "str" /\ UnitsOption(f) \notin conversionDict_keys) =>
                   ("units" \in DOMAIN sensor_map[f]
                    /\ sensor_map[f].units = Tuple(UnitsOption(f), None))
            /\ (UnitsOption(f).t = "list" /\ Len(UnitsOption(f).e) = 2) =>
                   sensor_map[f].units = Tuple(UnitsOption(f).e[1], UnitsOption(f).e[2])

\* C26: self.old_rain is stored before the gate and whatever the gate
\* decides: an iteration that applies the rain transform leaves its total in
\* self.old_rain whether it is yielded or suppressed, and the delta of its
\* packet is measured against the total of the iteration just before it,
\* yielded or suppressed.
C26_Step ==
    (ReachesGate /\ "rain" \in DOMAIN converted_data' /\ ~rain_delta) =>
        /\ old_rain' = converted_data'["rain"]
        /\ cycle >= 1 =>
            /\ old_rain = converted_data["rain"]
            /\ packet'["rain"]
                   = IF py2_ge(converted_data'["rain"], converted_data["rain"])
                     THEN PyFloat(NumVal(converted_data'["rain"])
                                  - NumVal(converted_data["rain"]))
                     ELSE None
C26_RainStoredBeforeGate == [][C26_Step]_vars

\* a suppressed iteration (its dateTime is behind the watermark) has taken
\* the total from 5.0 to 8.0: the increment 3.0 is in its packet, which is
\* not yielded, and self.old_rain holds 8.0
C26_Witness ==
    /\ pc = "sleep"
    /\ packet["dateTime"].t = "int"
    /\ NumVal(packet["dateTime"]) < NumVal(last_dateTime)
    /\ ~rain_delta
    /\ "rain" \in DOMAIN packet
    /\ packet["rain"] = PyFloat(3 * FloatScale)
    /\ old_rain = PyFloat(8 * FloatScale)

\* C27: in master mode an iteration yields a packet exactly when the second
\* read from the clock in it is greater than the watermark, whatever the
\* document holds and whether or not the read succeeded.
C27_Step ==
    (pc = "loop" /\ pc' # "loop" /\ mode = "master") =>
        (pc' = "yield" <=> py2_gt(ts', last_dateTime))
C27_MasterGateClockOnly == [][C27_Step]_vars

====
